---- MODULE Spec2Model ----
(***************************************************************************)
(* The transfer worker of clients/web/src/sw.ts: the onmessage handler     *)
(* (auth, cancel, upload-file, download-file), the polling wait for the    *)
(* AuthContext, handleUploadFile, handleDownloadFile and handleError,      *)
(* together with the two pipelines they call (uploadFile and               *)
(* downloadAndDecryptStream, sections 4.3 and 4.4 of the specification).   *)
(***************************************************************************)
EXTENDS Integers, Sequences, FiniteSets, TLC

VARIABLES SWApi, canceled, tasks, timers, started

vars == <<SWApi, canceled, tasks, timers, started>>

\* the key-pair manager: the KeyPair its caller holds and the result of
\* the last call made to it
VARIABLES kp, out

keyvars == <<kp, out>>

(* ------------------------------ bounds --------------------------------- *)

\* upload-file / download-file messages the caller sends in one run
MaxTransfers == 2
\* cancel messages of kind upload or download the caller sends in one run
MaxCancels == 1
\* auth messages the caller sends in one run
MaxAuths == 2
\* chunks of every transferred file (size / chunkSize, rounded up)
NumChunks == 2

(* ------------------------------ inputs --------------------------------- *)

FileIds == {1, 2}
CancelKinds == {"upload", "download", "other"}

\* self.SWApi before the first auth message: undefined. Every auth message
\* builds a new Api object, named here by the number of the message.
NoApi == 0

\* the values a rejected pipeline promise can carry into a catch clause or
\* into the error argument of the progress callback
ErrorValues == {"string", "Error", "object"}

\* how the upload pipeline ends on an unrecoverable send failure
FailureModes == {"report", "throw", "report_and_throw"}

\* attempts the upload pipeline makes for one chunk before giving up
MaxAttempts == 2

Range(s) == {s[i] : i \in DOMAIN s}

(* ------------------------------ events --------------------------------- *)

\* sw.ts handleError: undefined is <<>>, {context} is <<context>>,
\* {context, stack} is <<context, stack>>
handleError(error) ==
    IF error = "undefined" THEN <<>>
    ELSE IF error = "string" THEN <<"string">>
    ELSE IF error = "Error" THEN <<"message", "stack">>
    ELSE <<>>

Event(type, attempt, isDone, error, cancel, chunkBytes) ==
    [type |-> type, attempt |-> attempt, isDone |-> isDone, error |-> error,
     cancel |-> cancel, chunkBytes |-> chunkBytes]

\* the progress callback of handleUploadFile; cancel is the marker the
\* pipeline sets on the file it passes, spread into transferableFile
progressMarksError(cancel, attempt, isDone, error) ==
    Event("upload-progress", attempt, isDone, handleError("string"), cancel, 0)

progress(cancel, attempt, isDone, error) ==
    Event("upload-progress", attempt, isDone, handleError(error), cancel, 0)

\* the progress callback handleDownloadFile passes to the pipeline
downloadProgress(chunkBytes) ==
    Event("download-progress", 0, FALSE, <<>>, FALSE, chunkBytes)

\* the event posted after the pipeline returned
downloadCompleted ==
    Event("download-completed", 0, FALSE, <<>>, FALSE, 0)

\* the event posted by the catch clause of handleDownloadFile
downloadFailed(error) ==
    Event("download-progress", 0, FALSE, handleError(error), FALSE, 0)

(* -------------------------- key-pair manager --------------------------- *)

\* the RSA key pairs the inputs are drawn from, and the messages
KeyIds == {1, 2, 3}
Messages == {"m1", "m2"}

\* a string handed to the manager: a PEM blob of a key pair, text that is
\* no key, a message to sign, a message encrypted to a key pair, or null
NullBlob == [format |-> "null", k |-> 0, text |-> ""]
PublicBlob(k) == [format |-> "pkcs1-public-pem", k |-> k, text |-> ""]
PrivateBlob(k) == [format |-> "pkcs1", k |-> k, text |-> ""]
Garbage == [format |-> "garbage", k |-> 0, text |-> ""]
Message(m) == [format |-> "message", k |-> 0, text |-> m]
Ciphertext(k, m) == [format |-> "ciphertext", k |-> k, text |-> m]

Blobs == {Garbage} \cup {PublicBlob(k) : k \in KeyIds}
                   \cup {PrivateBlob(k) : k \in KeyIds}

\* a node-rsa key object (Raw): the pair it belongs to, whether it holds
\* the private half, and the input field inputToKeyPair sets on it
NullKey == [k |-> 0, private |-> FALSE, input |-> NullBlob]
RawKey(k, private, input) == [k |-> k, private |-> private, input |-> input]

KeyPairOf(input, key, publicKey, fingerprint) ==
    [input |-> input, key |-> key, publicKey |-> publicKey,
     fingerprint |-> fingerprint]

NullKeyPair == KeyPairOf(NullBlob, NullKey, NullBlob, <<>>)

\* what a call returns or throws
Returned(pair, val) == [ok |-> TRUE, error |-> "", kp |-> pair, val |-> val]
Thrown(error) == [ok |-> FALSE, error |-> error, kp |-> NullKeyPair, val |-> <<>>]

NoPrivateKeySign == "No privateKey, cannot sign message"
NoPrivateKeyDecrypt == "No privateKey, cannot decrypt message"

\* key.exportKey('components-public').n: the modulus bytes, led by the
\* zero byte of its encoding
Modulus(k) == <<0, 160 + k, 16 * k + 1>>

HexDigits == <<"0", "1", "2", "3", "4", "5", "6", "7",
               "8", "9", "a", "b", "c", "d", "e", "f">>

\* Buffer.toString('hex')
Hex(bytes) ==
    [i \in 1..(2 * Len(bytes)) |->
       IF i % 2 = 1 THEN HexDigits[(bytes[(i + 1) \div 2] \div 16) + 1]
       ELSE HexDigits[(bytes[i \div 2] % 16) + 1]]

\* forge.md.sha256 over a text, hex digest: a digest that tells texts apart
sha256(text) == <<"sha256">> \o text

\* getFingerprintFromRaw: drop the first byte, hex-encode, hash the hex text
getFingerprintFromRaw(key) == sha256(Hex(Tail(Modulus(key.k))))

\* new RSA(...).importKey(input, 'pkcs1'), then exportKey and fingerprint
inputToKeyPair(input) ==
    IF input.format # "pkcs1" THEN Thrown("KeyFormatError")
    ELSE LET key == RawKey(input.k, TRUE, input) IN
           Returned(KeyPairOf(input, key, PublicBlob(key.k),
                              getFingerprintFromRaw(key)), <<>>)

\* new RSA(publicKey, 'pkcs1-public-pem', options)
publicToKeyPair(publicKey) ==
    IF publicKey.format # "pkcs1-public-pem" THEN Thrown("KeyFormatError")
    ELSE LET key == RawKey(publicKey.k, FALSE, NullBlob) IN
           Returned(KeyPairOf(NullBlob, key, publicKey,
                              getFingerprintFromRaw(key)), <<>>)

\* getFingerprint: the public parse first, the private parse in the catch
getFingerprintNoFallback(input) ==
    LET pub == publicToKeyPair(input) IN
      IF pub.ok THEN Returned(NullKeyPair, getFingerprintFromRaw(pub.kp.key))
      ELSE Thrown("KeyFormatError")

getFingerprint(input) ==
    LET pub == publicToKeyPair(input) IN
      IF pub.ok THEN Returned(NullKeyPair, getFingerprintFromRaw(pub.kp.key))
      ELSE LET priv == inputToKeyPair(input) IN
             IF ~priv.ok THEN priv
             ELSE LET again == publicToKeyPair(priv.kp.publicKey) IN
                    IF ~again.ok THEN again
                    ELSE Returned(NullKeyPair, getFingerprintFromRaw(again.kp.key))

\* generateKeyPair: a new pair, exported as pkcs1 and read back
generateKeyPair(k) == inputToKeyPair(PrivateBlob(k))

\* keypairFromRaw: input: key?.input || null, key and publicKey as given,
\* the fingerprint of publicKey when there is one
keypairFromRaw(internal) ==
    LET fp == IF internal.publicKey # NullBlob
              THEN getFingerprint(internal.publicKey)
              ELSE Returned(NullKeyPair, <<>>) IN
      IF ~fp.ok THEN fp
      ELSE Returned(KeyPairOf(IF internal.key # NullKey THEN internal.key.input
                              ELSE NullBlob,
                              internal.key, internal.publicKey, fp.val), <<>>)

\* sign: refused without a private key, otherwise key.sign(message, 'hex')
signChecksKeyOnly(pair, message) ==
    IF pair.key = NullKey THEN Thrown(NoPrivateKeySign)
    ELSE IF ~pair.key.private THEN Thrown("This is not private key")
    ELSE Returned(NullKeyPair, <<"signature", pair.key.k, message.text>>)

sign(pair, message) ==
    IF pair.key = NullKey \/ ~pair.key.private THEN Thrown(NoPrivateKeySign)
    ELSE Returned(NullKeyPair, <<"signature", pair.key.k, message.text>>)

\* decryptMessage: refused without a private key, otherwise key.decrypt
decryptMessage(pair, message) ==
    IF pair.key = NullKey \/ ~pair.key.private THEN Thrown(NoPrivateKeyDecrypt)
    ELSE IF message.k # pair.key.k
    THEN Thrown("Error during decryption")
    ELSE Returned(NullKeyPair, <<"plaintext", message.text>>)

\* the result of the last call, with the call and its argument
Call(op, arg, result) ==
    [op |-> op, arg |-> arg, ok |-> result.ok, error |-> result.error,
     val |-> result.val]

NoCall == Call("none", NullBlob, Returned(NullKeyPair, <<>>))

\* the objects a caller can hand to keypairFromRaw: a key or none, with
\* the public key string of the same pair or none
RawKeys == {RawKey(k, FALSE, NullBlob) : k \in KeyIds}
             \cup {RawKey(k, TRUE, NullBlob) : k \in KeyIds}
             \cup {RawKey(k, TRUE, PrivateBlob(k)) : k \in KeyIds}

Internals ==
    {KeyPairOf(NullBlob, key, publicKey, <<>>) :
       key \in RawKeys \cup {NullKey},
       publicKey \in {NullBlob} \cup {PublicBlob(k) : k \in KeyIds}}

(* ------------------------------- state --------------------------------- *)

Task(kind, id, pc, api) ==
    [kind |-> kind, id |-> id, pc |-> pc, api |-> api, chunk |-> 1,
     attempt |-> 0, sent |-> <<>>, events |-> <<>>]

Init ==
    /\ kp = NullKeyPair
    /\ out = NoCall
    /\ SWApi = NoApi
    /\ canceled = [upload |-> <<>>, download |-> <<>>]
    /\ tasks = <<>>
    /\ timers = <<>>
    /\ started = <<>>

Post(t, evs) == [tasks EXCEPT ![t].events = @ \o evs]

(* ----------------------------- onmessage ------------------------------- *)

\* while (!self.SWApi): the loop is left only with an AuthContext installed
DispatchAlways == TRUE

DispatchSerial ==
    /\ SWApi # NoApi
    /\ \A u \in DOMAIN tasks : tasks[u].pc \in {"waiting", "done"}

ApiReady == SWApi # NoApi

\* type auth: self.SWApi = new Api(message.data)
ReceiveAuthResets ==
    /\ SWApi < MaxAuths
    /\ SWApi' = SWApi + 1
    /\ canceled' = [upload |-> <<>>, download |-> <<>>]
    /\ UNCHANGED <<tasks, timers, started>>

ReceiveAuthRebinds ==
    /\ SWApi < MaxAuths
    /\ SWApi' = SWApi + 1
    /\ tasks' = [t \in DOMAIN tasks |->
                   IF tasks[t].pc = "waiting" THEN tasks[t]
                   ELSE [tasks[t] EXCEPT !.api = SWApi + 1]]
    /\ UNCHANGED <<canceled, timers, started>>

ReceiveAuth ==
    /\ SWApi < MaxAuths
    /\ SWApi' = SWApi + 1
    /\ UNCHANGED <<canceled, tasks, timers, started>>

\* type cancel: push the id on the list of its kind
pushSwapped(kind, id) ==
    IF kind = "upload" THEN [canceled EXCEPT !.download = Append(@, id)]
    ELSE IF kind = "download" THEN [canceled EXCEPT !.upload = Append(@, id)]
    ELSE canceled

pushBoth(kind, id) ==
    IF kind \in {"upload", "download"}
    THEN [upload |-> Append(canceled.upload, id),
          download |-> Append(canceled.download, id)]
    ELSE canceled

push(kind, id) ==
    IF kind = "upload" THEN [canceled EXCEPT !.upload = Append(@, id)]
    ELSE IF kind = "download" THEN [canceled EXCEPT !.download = Append(@, id)]
    ELSE canceled

ReceiveCancel(kind, id) ==
    /\ Len(canceled.upload) + Len(canceled.download) < MaxCancels
    /\ canceled' = push(kind, id)
    /\ UNCHANGED <<SWApi, tasks, timers, started>>

\* type upload-file / download-file: with an AuthContext the handler is
\* called in the same turn, otherwise the dispatch sleeps
ReceiveTransfer(kind, id) ==
    /\ Len(tasks) < MaxTransfers
    /\ IF ApiReady
       THEN /\ tasks' = Append(tasks, Task(kind, id, "check", SWApi))
            /\ started' = Append(started, Len(tasks) + 1)
            /\ UNCHANGED timers
       ELSE /\ tasks' = Append(tasks, Task(kind, id, "waiting", NoApi))
            /\ timers' = Append(timers, Len(tasks) + 1)
            /\ UNCHANGED started
    /\ UNCHANGED <<SWApi, canceled>>

ReceiveUpload(id) == ReceiveTransfer("upload", id)

ReceiveDownload(id) == ReceiveTransfer("download", id)

\* await sleep(1) again: a new one-second timer, behind the pending ones
sleepForgets(t) == Tail(timers)

sleep(t) == Append(Tail(timers), t)

\* the loop is left: no further timer is set for this dispatch
leaveLoopRearms == Append(Tail(timers), Head(timers))

leaveLoop == Tail(timers)

\* the oldest pending timer fires and its dispatch tests self.SWApi again;
\* with an AuthContext the handler is called with the message's file
Wake ==
    /\ timers # <<>>
    /\ LET t == Head(timers) IN
         IF ApiReady
         THEN /\ tasks' = [tasks EXCEPT ![t].pc = "check", ![t].api = SWApi,
                                         ![t].chunk = 1, ![t].attempt = 0]
              /\ started' = Append(started, t)
              /\ timers' = leaveLoop
         ELSE /\ timers' = sleep(t)
              /\ UNCHANGED <<tasks, started>>
    /\ UNCHANGED <<SWApi, canceled>>

(* ------------------------- handleUploadFile ---------------------------- *)

IsUpload(t) == t \in DOMAIN tasks /\ tasks[t].kind = "upload"

IsDownload(t) == t \in DOMAIN tasks /\ tasks[t].kind = "download"

\* the catch clause: progress(file, 0, false, error)
uploadCatch(error) == progress(FALSE, 0, FALSE, error)

\* the pipelines take the chunks of a file one after the other
nextChunk(chunk) == chunk + 1

\* uploadFile, before each chunk: the registry is consulted for file.id;
\* a canceled upload reports isDone=false on a file marked canceled

UploadCheck(t) ==
    /\ IsUpload(t) /\ tasks[t].pc = "check"
    /\ IF tasks[t].id \in Range(canceled.upload)
       THEN tasks' = [Post(t, <<progress(TRUE, 0, FALSE, "undefined")>>)
                        EXCEPT ![t].pc = "done"]
       ELSE tasks' = [tasks EXCEPT ![t].pc = "send", ![t].attempt = 1]
    /\ UNCHANGED <<SWApi, canceled, timers, started>>

\* the network collaborator accepted the chunk
UploadSendOk(t) ==
    /\ IsUpload(t) /\ tasks[t].pc = "send"
    /\ LET last == tasks[t].chunk >= NumChunks
           ev == progress(FALSE, tasks[t].attempt, last, "undefined") IN
         tasks' = [Post(t, <<ev>>) EXCEPT
                     ![t].sent = Append(@, tasks[t].chunk),
                     ![t].chunk = nextChunk(@),
                     ![t].attempt = 0,
                     ![t].pc = IF last THEN "done" ELSE "check"]
    /\ UNCHANGED <<SWApi, canceled, timers, started>>

\* a transient failure with attempts left: reported, then sent again
UploadSendRetry(t) ==
    /\ IsUpload(t) /\ tasks[t].pc = "send"
    /\ tasks[t].attempt < MaxAttempts
    /\ tasks' = [Post(t, <<progress(FALSE, tasks[t].attempt, FALSE, "undefined")>>)
                   EXCEPT ![t].attempt = @ + 1]
    /\ UNCHANGED <<SWApi, canceled, timers, started>>

\* the last allowed attempt failed: the pipeline reports the error through
\* the callback, rejects (the catch clause of handleUploadFile), or both
UploadSendFail(t, error, mode) ==
    /\ IsUpload(t) /\ tasks[t].pc = "send"
    /\ tasks[t].attempt >= MaxAttempts
    /\ LET reported == IF mode \in {"report", "report_and_throw"}
                       THEN <<progress(FALSE, tasks[t].attempt, FALSE, error)>>
                       ELSE <<>>
           caught == IF mode \in {"throw", "report_and_throw"}
                     THEN <<uploadCatch(error)>>
                     ELSE <<>> IN
         tasks' = [Post(t, reported \o caught) EXCEPT ![t].pc = "done"]
    /\ UNCHANGED <<SWApi, canceled, timers, started>>

(* ------------------------ handleDownloadFile --------------------------- *)

\* downloadAndDecryptStream, before each chunk: a canceled download rejects
\* with a cancellation error, which the catch clause posts
DownloadCheck(t) ==
    /\ IsDownload(t) /\ tasks[t].pc = "check"
    /\ IF tasks[t].id \in Range(canceled.download)
       THEN \E error \in ErrorValues :
              tasks' = [Post(t, <<downloadFailed(error)>>) EXCEPT ![t].pc = "done"]
       ELSE tasks' = [tasks EXCEPT ![t].pc = "recv"]
    /\ UNCHANGED <<SWApi, canceled, timers, started>>

\* a chunk arrived and decrypted: the callback posts the bytes so far
DownloadChunkOk(t) ==
    /\ IsDownload(t) /\ tasks[t].pc = "recv"
    /\ tasks' = [Post(t, <<downloadProgress(tasks[t].chunk)>>) EXCEPT
                   ![t].sent = Append(@, tasks[t].chunk),
                   ![t].chunk = nextChunk(@),
                   ![t].pc = IF tasks[t].chunk >= NumChunks THEN "end" ELSE "check"]
    /\ UNCHANGED <<SWApi, canceled, timers, started>>

\* the read or the decryption of a chunk failed: the pipeline rejects
DownloadChunkFail(t, error) ==
    /\ IsDownload(t) /\ tasks[t].pc = "recv"
    /\ tasks' = [Post(t, <<downloadFailed(error)>>) EXCEPT ![t].pc = "done"]
    /\ UNCHANGED <<SWApi, canceled, timers, started>>

\* the stream ended: the pipeline returned and download-completed is posted
DownloadEnd(t) ==
    /\ IsDownload(t) /\ tasks[t].pc = "end"
    /\ tasks' = [Post(t, <<downloadCompleted>>) EXCEPT ![t].pc = "done"]
    /\ UNCHANGED <<SWApi, canceled, timers, started>>

(* --------------------------- specification ----------------------------- *)

Slots == 1..(MaxTransfers + 1)

Next ==
    \/ UNCHANGED keyvars /\ ReceiveAuth
    \/ UNCHANGED keyvars /\ \E kind \in CancelKinds, id \in FileIds : ReceiveCancel(kind, id)
    \/ UNCHANGED keyvars /\ \E id \in FileIds : ReceiveUpload(id)
    \/ UNCHANGED keyvars /\ \E id \in FileIds : ReceiveDownload(id)
    \/ UNCHANGED keyvars /\ Wake
    \/ UNCHANGED keyvars /\ \E t \in Slots : UploadCheck(t)
    \/ UNCHANGED keyvars /\ \E t \in Slots : UploadSendOk(t)
    \/ UNCHANGED keyvars /\ \E t \in Slots : UploadSendRetry(t)
    \/ UNCHANGED keyvars /\ \E t \in Slots, error \in ErrorValues, mode \in FailureModes :
         UploadSendFail(t, error, mode)
    \/ UNCHANGED keyvars /\ \E t \in Slots : DownloadCheck(t)
    \/ UNCHANGED keyvars /\ \E t \in Slots : DownloadChunkOk(t)
    \/ UNCHANGED keyvars /\ \E t \in Slots, error \in ErrorValues : DownloadChunkFail(t, error)
    \/ UNCHANGED keyvars /\ \E t \in Slots : DownloadEnd(t)

Spec == Init /\ [][Next]_vars

\* timers fire: a pending one-second timeout is eventually run
FairSpec == Spec /\ WF_vars(Wake)

(* ---------------------- key-pair manager, as calls --------------------- *)

\* a constructor's result is the KeyPair the caller holds from then on
Held(result) == IF result.ok THEN result.kp ELSE kp

GenerateKeyPair(k) ==
    /\ kp' = Held(generateKeyPair(k))
    /\ out' = Call("generateKeyPair", NullBlob, generateKeyPair(k))
    /\ UNCHANGED vars

InputToKeyPair(input) ==
    /\ kp' = Held(inputToKeyPair(input))
    /\ out' = Call("inputToKeyPair", input, inputToKeyPair(input))
    /\ UNCHANGED vars

PublicToKeyPair(publicKey) ==
    /\ kp' = Held(publicToKeyPair(publicKey))
    /\ out' = Call("publicToKeyPair", publicKey, publicToKeyPair(publicKey))
    /\ UNCHANGED vars

KeypairFromRaw(internal) ==
    /\ kp' = Held(keypairFromRaw(internal))
    /\ out' = Call("keypairFromRaw", internal.publicKey, keypairFromRaw(internal))
    /\ UNCHANGED vars

\* the other calls are handed the KeyPair held, and leave it alone
GetFingerprint(input) ==
    /\ out' = Call("getFingerprint", input, getFingerprint(input))
    /\ UNCHANGED <<kp, vars>>

Sign(message) ==
    /\ out' = Call("sign", message, sign(kp, message))
    /\ UNCHANGED <<kp, vars>>

DecryptMessage(message) ==
    /\ out' = Call("decryptMessage", message, decryptMessage(kp, message))
    /\ UNCHANGED <<kp, vars>>

KeyNext ==
    \/ \E k \in KeyIds : GenerateKeyPair(k)
    \/ \E input \in Blobs : InputToKeyPair(input)
    \/ \E publicKey \in Blobs : PublicToKeyPair(publicKey)
    \/ \E internal \in Internals \cup {kp} : KeypairFromRaw(internal)
    \/ \E input \in Blobs : GetFingerprint(input)
    \/ \E m \in Messages : Sign(Message(m))
    \/ \E k \in KeyIds, m \in Messages : DecryptMessage(Ciphertext(k, m))

KeySpec == Init /\ [][KeyNext]_keyvars

(* ------------------------------ claims --------------------------------- *)

Running(t) == t \in DOMAIN tasks /\ tasks[t].pc # "waiting"

\* C1: a transfer is inside uploadFile or downloadAndDecryptStream only
\* with an AuthContext: the api argument the pipeline was called with is
\* never the undefined self.SWApi.
C1_PipelineHasAuth ==
    \A t \in DOMAIN tasks : tasks[t].pc # "waiting" => tasks[t].api # NoApi

\* an upload received before auth is sending a chunk, dispatched after the
\* download that was received behind it
C1_Witness ==
    /\ started = <<2, 1>>
    /\ tasks[1].kind = "upload" /\ tasks[1].pc = "send"
    /\ tasks[2].kind = "download"

\* C2: a dispatch suspended for want of an AuthContext leaves auth and
\* cancel messages processable, and once an AuthContext is installed every
\* suspended dispatch is eventually handed to its pipeline.
C2_SuspendedDispatchResumes ==
    /\ \A t \in Slots :
         (t \in DOMAIN tasks /\ tasks[t].pc = "waiting" /\ SWApi # NoApi)
            ~> Running(t)
    /\ [](timers # <<>> /\ SWApi < MaxAuths => ENABLED ReceiveAuth)
    /\ [](timers # <<>> /\ Len(canceled.upload) + Len(canceled.download) < MaxCancels
            => \A kind \in CancelKinds, id \in FileIds : ENABLED ReceiveCancel(kind, id))

\* the first transfer was received before auth and slept; it was handed
\* to its pipeline after the second one, with the same AuthContext, and
\* both have since run their pipelines to the end
C2_Witness ==
    /\ started = <<2, 1>>
    /\ tasks[1].api = tasks[2].api
    /\ \A t \in {1, 2} : tasks[t].pc = "done"

\* C3: processing cancel{kind, id} with kind upload or download leaves id
\* in the registry list of that kind, whatever state the worker is in.
C3_CancelRecorded ==
    /\ [][\A kind \in {"upload", "download"}, id \in FileIds :
            ReceiveCancel(kind, id) => id \in Range(canceled'[kind])]_vars
    /\ [](Len(canceled.upload) + Len(canceled.download) < MaxCancels
            => \A kind \in {"upload", "download"}, id \in FileIds :
                 ENABLED ReceiveCancel(kind, id))

\* a cancel recorded while the upload it names is suspended before auth
C3_Witness ==
    /\ SWApi = NoApi
    /\ Len(tasks) = 1 /\ tasks[1].kind = "upload" /\ tasks[1].pc = "waiting"
    /\ tasks[1].id \in Range(canceled.upload)

\* ---- what the caller can tell from the events of one transfer ----

HasError(e) == e.error # <<>>

Terminal(e) ==
    \/ e.type = "upload-progress" /\ (e.isDone \/ HasError(e) \/ e.cancel)
    \/ e.type = "download-completed"
    \/ e.type = "download-progress" /\ HasError(e)

TerminalAt(t) == {i \in DOMAIN tasks[t].events : Terminal(tasks[t].events[i])}

Completed(t) == \E i \in DOMAIN tasks[t].events :
                   tasks[t].events[i].type = "download-completed"

Failed(t) == \E i \in DOMAIN tasks[t].events :
                tasks[t].events[i].type = "download-progress"
                /\ HasError(tasks[t].events[i])

InOrder(s) == \A i \in DOMAIN s : s[i] = i

\* C4: an upload whose registry check finds its id canceled sends nothing
\* more: the chunks sent are those before the checked one, and its last
\* event is marked canceled with isDone=false and no error; a finished
\* upload never sends or posts again.
C4_CanceledUploadStops ==
    [][\A t \in DOMAIN tasks :
         /\ (/\ tasks[t].kind = "upload" /\ tasks[t].pc = "check"
             /\ tasks[t].id \in Range(canceled.upload)
             /\ tasks'[t] # tasks[t])
            => /\ tasks'[t].pc = "done"
               /\ tasks'[t].sent = tasks[t].sent
               /\ tasks[t].sent = [i \in 1..(tasks[t].chunk - 1) |-> i]
               /\ Len(tasks'[t].events) = Len(tasks[t].events) + 1
               /\ LET e == tasks'[t].events[Len(tasks'[t].events)] IN
                    e.cancel /\ ~e.isDone /\ ~HasError(e)
               /\ TerminalAt(t)' = {Len(tasks'[t].events)}
         /\ tasks[t].pc = "done" => tasks'[t] = tasks[t]]_vars

\* cancel{upload, id} was recorded after chunk 1 of a running upload went
\* out and before chunk 2 was checked: chunk 1 only was sent
C4_Witness ==
    \E t \in DOMAIN tasks :
      /\ tasks[t].kind = "upload" /\ tasks[t].pc = "done"
      /\ tasks[t].sent = <<1>>
      /\ tasks[t].events[Len(tasks[t].events)].cancel

\* C5: a finished download has either download-completed, posted after
\* the pipeline returned with every chunk, or a download-progress event
\* carrying an error, and never both.
C5_CompletedOrError ==
    \A t \in DOMAIN tasks :
      (tasks[t].kind = "download" /\ tasks[t].pc = "done")
        => /\ Completed(t) # Failed(t)
           /\ Completed(t) => tasks[t].sent = [i \in 1..NumChunks |-> i]

\* C6: a transfer has at most one terminal event, and it is its last event.
C6_OneTerminalEvent ==
    \A t \in DOMAIN tasks :
      /\ Cardinality(TerminalAt(t)) <= 1
      /\ TerminalAt(t) \subseteq {Len(tasks[t].events)}

\* C7: a transfer whose pipeline has ended has posted an event the caller
\* can recognise as terminal.
C7_TransferResolved ==
    \A t \in DOMAIN tasks :
      tasks[t].pc = "done" => TerminalAt(t) # {}

\* C8: every event posted for a failing pipeline (an unrecoverable send
\* failure, a failed chunk read or decryption) carries an error with a
\* context.
C8_FailureCarriesError ==
    [][\A t \in DOMAIN tasks :
         (\/ \E error \in ErrorValues, mode \in FailureModes :
               UploadSendFail(t, error, mode)
          \/ \E error \in ErrorValues : DownloadChunkFail(t, error))
         => \A i \in (DOMAIN tasks'[t].events) \ (DOMAIN tasks[t].events) :
              Len(tasks'[t].events[i].error) >= 1]_vars

\* C9: with an AuthContext installed an upload-file or download-file
\* message starts its pipeline in the turn that receives it, whatever the
\* other transfers are doing, and leaves them as they were.
C9_DispatchDoesNotWait ==
    [][\A kind \in {"upload", "download"}, id \in FileIds :
         (ReceiveTransfer(kind, id) /\ SWApi # NoApi)
         => /\ Len(tasks') = Len(tasks) + 1
            /\ tasks'[Len(tasks')].pc = "check"
            /\ started' = Append(started, Len(tasks'))
            /\ \A u \in DOMAIN tasks : tasks'[u] = tasks[u]]_vars

\* the second transfer was started while the first was sending a chunk,
\* and both are now in the middle of their pipelines
C9_Witness ==
    /\ started = <<1, 2>>
    /\ tasks[1].pc = "send" /\ tasks[1].sent # <<>>
    /\ tasks[2].pc = "recv" /\ tasks[2].sent # <<>>

\* C10: the chunks a pipeline has finished are 1, 2, ... in index order
\* without gap or repeat, and the chunk it is working on is the next one.
C10_ChunksInOrder ==
    \A t \in DOMAIN tasks :
      /\ InOrder(tasks[t].sent)
      /\ Len(tasks[t].sent) <= NumChunks
      /\ tasks[t].pc \in {"check", "send", "recv"}
           => tasks[t].chunk = Len(tasks[t].sent) + 1

\* an upload and a download with different ids are both between chunks
C10_Witness ==
    /\ Len(tasks) = 2
    /\ tasks[1].kind = "upload" /\ tasks[2].kind = "download"
    /\ tasks[1].id # tasks[2].id
    /\ tasks[1].pc = "check" /\ tasks[1].sent = <<1>>
    /\ tasks[2].pc = "check" /\ tasks[2].sent = <<1>>
    /\ Len(tasks[1].events) = 2

\* ---- uploads, as the caller sees them ----

Last(s) == s[Len(s)]

Succeeded(t) == tasks[t].events # <<>> /\ Last(tasks[t].events).isDone

CanceledUpload(t) == tasks[t].events # <<>> /\ Last(tasks[t].events).cancel

ErrorsAt(t) == {i \in DOMAIN tasks[t].events : HasError(tasks[t].events[i])}

\* C11: every reported attempt number is within the allowed attempts; an
\* upload that ended with isDone=true sent every chunk, retries included;
\* an upload that ended on a chunk failing every allowed attempt has one
\* event carrying an error, its last, and sent no chunk after the failed one.
C11_RetryThenOneError ==
    \A t \in DOMAIN tasks :
      tasks[t].kind = "upload" =>
        /\ \A i \in DOMAIN tasks[t].events :
             tasks[t].events[i].attempt <= MaxAttempts
        /\ (tasks[t].pc = "done" /\ Succeeded(t))
             => tasks[t].sent = [i \in 1..NumChunks |-> i]
        /\ (tasks[t].pc = "done" /\ ~Succeeded(t) /\ ~CanceledUpload(t))
             => /\ ErrorsAt(t) = {Len(tasks[t].events)}
                /\ tasks[t].sent = [i \in 1..(tasks[t].chunk - 1) |-> i]

\* C12: an id in the upload or download list of the registry is in it in
\* every later state.
C12_RegistryOneWay ==
    [][\A kind \in {"upload", "download"} :
         Range(canceled[kind]) \subseteq Range(canceled'[kind])]_vars

\* the canceled upload has ended, another transfer has run to its end and
\* a second auth message was processed: the entry is still there
C12_Witness ==
    /\ Len(tasks) = 2 /\ SWApi = 2
    /\ tasks[1].kind = "upload" /\ tasks[1].pc = "done" /\ CanceledUpload(1)
    /\ tasks[2].pc = "done"
    /\ tasks[1].id \in Range(canceled.upload)

\* C13: only an auth message changes self.SWApi, and it installs the Api
\* built from that message; a pipeline is called with the Api installed at
\* that moment and keeps it to the end, whatever auth messages follow.
C13_AuthReplacedNotShared ==
    [][/\ SWApi' # SWApi => (ReceiveAuth /\ SWApi' = SWApi + 1)
       /\ \A t \in DOMAIN tasks :
            /\ tasks[t].pc # "waiting" => tasks'[t].api = tasks[t].api
            /\ (tasks[t].pc = "waiting" /\ tasks'[t].pc # "waiting")
                 => (tasks'[t].api = SWApi /\ SWApi # NoApi)
       /\ Len(tasks') > Len(tasks) =>
            (tasks'[Len(tasks')].pc # "waiting"
               => (tasks'[Len(tasks')].api = SWApi /\ SWApi # NoApi))]_vars

\* an upload started under the first Api is still sending chunks with it
\* after a second auth message replaced self.SWApi
C13_Witness ==
    \E t \in DOMAIN tasks :
      /\ tasks[t].kind = "upload" /\ tasks[t].pc = "send"
      /\ tasks[t].sent # <<>>
      /\ tasks[t].api = 1 /\ SWApi = 2

\* C14: a transfer started after a transfer of the same direction and id
\* has ended is not affected by the registry entry that one left behind.
\* The pipelines stop a transfer whose id they find in the list, so the id
\* must not be in the list when the later transfer starts.
C14_StaleEntryHarmless ==
    [][\A kind \in {"upload", "download"}, id \in FileIds :
         (/\ ReceiveTransfer(kind, id)
          /\ SWApi # NoApi
          /\ \E u \in DOMAIN tasks :
               tasks[u].kind = kind /\ tasks[u].id = id /\ tasks[u].pc = "done")
         => id \notin Range(canceled'[kind])]_vars

\* C15: getFingerprint gives the same fingerprint for the public and the
\* private blob of one key pair: it succeeds exactly when the public parse
\* or the private parse of its input succeeds, its value is the digest of
\* the pair's modulus whichever blob it was given, and that is the
\* fingerprint of every KeyPair built from a blob of the same pair.
C15_FingerprintSameForBothBlobs ==
    out.op = "getFingerprint" =>
      /\ out.ok <=> (publicToKeyPair(out.arg).ok \/ inputToKeyPair(out.arg).ok)
      /\ ~out.ok => out.val = <<>>
      /\ out.ok =>
           /\ out.val = getFingerprint(PublicBlob(out.arg.k)).val
           /\ out.val = getFingerprint(PrivateBlob(out.arg.k)).val
           /\ out.val = sha256(Hex(Tail(Modulus(out.arg.k))))
           /\ (kp.publicKey # NullBlob /\ kp.publicKey.k = out.arg.k)
                => kp.fingerprint = out.val

\* getFingerprint has answered for the private blob of a pair while the
\* KeyPair held was built from the public blob of the same pair
C15_Witness ==
    /\ out.op = "getFingerprint" /\ out.ok
    /\ out.arg = PrivateBlob(1)
    /\ kp.publicKey = PublicBlob(1)
    /\ kp.key # NullKey /\ ~kp.key.private
    /\ kp.fingerprint = out.val

\* C16: sign and decryptMessage succeed only with a KeyPair whose key
\* holds the private half; with no key or a public-only key each fails
\* with its no-private-key error and returns nothing.
C16_NoPrivateKeyRefused ==
    out.op \in {"sign", "decryptMessage"} =>
      /\ out.ok => (kp.key # NullKey /\ kp.key.private)
      /\ (kp.key = NullKey \/ ~kp.key.private) =>
           /\ ~out.ok
           /\ out.val = <<>>
           /\ out.error = IF out.op = "sign" THEN NoPrivateKeySign
                          ELSE NoPrivateKeyDecrypt

\* sign was refused for a KeyPair that holds a public-only key
C16_Witness ==
    /\ out.op = "sign" /\ ~out.ok
    /\ out.error = NoPrivateKeySign
    /\ kp.key # NullKey /\ ~kp.key.private

\* C17: every KeyPair a constructor returns has a key whenever it has a
\* publicKey, and has an input only if its key holds the private half.
C17_KeyPairInvariant ==
    (/\ out.op \in {"generateKeyPair", "inputToKeyPair", "publicToKeyPair",
                    "keypairFromRaw"}
     /\ out.ok)
    => /\ kp.publicKey # NullBlob => kp.key # NullKey
       /\ kp.input # NullBlob => (kp.key # NullKey /\ kp.key.private)

\* C18: a cancel message changes nothing but the list of its own kind,
\* which gains the id; a cancel of another kind changes nothing.
C18_CancelFrame ==
    [][\A kind \in CancelKinds, id \in FileIds :
         ReceiveCancel(kind, id)
         => /\ SWApi' = SWApi /\ tasks' = tasks
            /\ timers' = timers /\ started' = started
            /\ kind = "upload"
                 => /\ canceled'.download = canceled.download
                    /\ canceled'.upload = Append(canceled.upload, id)
            /\ kind = "download"
                 => /\ canceled'.upload = canceled.upload
                    /\ canceled'.download = Append(canceled.download, id)
            /\ kind = "other" => canceled' = canceled]_vars

\* cancel{upload, id} is recorded and a download of the same id, checked
\* against the registry afterwards, has completed
C18_Witness ==
    \E t \in DOMAIN tasks :
      /\ tasks[t].kind = "download" /\ tasks[t].pc = "done" /\ Completed(t)
      /\ tasks[t].id \in Range(canceled.upload)
      /\ canceled.download = <<>>
      /\ \E u \in DOMAIN tasks :
           tasks[u].kind = "upload" /\ tasks[u].id = tasks[t].id /\ CanceledUpload(u)

\* C19 (as stated): a suspended dispatch that is handed to its pipeline is
\* the one received first among the dispatches still suspended.
C19_HandedOverInReceiptOrder ==
    [][(/\ SWApi # NoApi /\ timers # <<>>
        /\ started' = Append(started, Head(timers)))
       => \A u \in Range(timers) : Head(timers) <= u]_vars

\* C19, amended: a suspended dispatch is handed to its pipeline only with
\* an AuthContext installed and only when its own timer is the oldest
\* pending one; the others keep their places, so suspended transfers are
\* handed over in the order of their pending timers, and every suspended
\* dispatch holds exactly one pending timer.
C19_HandedOverInTimerOrder ==
    /\ [][\A t \in DOMAIN tasks :
            (tasks[t].pc = "waiting" /\ tasks'[t].pc # "waiting")
            => /\ SWApi # NoApi
               /\ t = Head(timers)
               /\ timers' = Tail(timers)
               /\ started' = Append(started, t)]_vars
    /\ [](/\ Range(timers) = {t \in DOMAIN tasks : tasks[t].pc = "waiting"}
          /\ Cardinality(Range(timers)) = Len(timers))

\* both transfers were received before auth, the first has polled again
\* since the second was received, and auth is now installed: the second
\* will be handed over first
C19_Witness ==
    /\ SWApi # NoApi
    /\ timers = <<2, 1>>
    /\ tasks[1].pc = "waiting" /\ tasks[2].pc = "waiting"

====
